---- MODULE Spec2Model ----
(***************************************************************************)
(* ToDo backend: ToDoService (business_logic/todo_service.py) running on   *)
(* ToDoRepository (data_access/repository.py) over the toDo table          *)
(* (data_access/database.py), with the entity ToDoEntryData                *)
(* (models/todo.py) and the output schema ToDoSchema (schemas/todo.py).    *)
(*                                                                         *)
(* Text is a sequence of one-character strings.  An Optional value is a    *)
(* record with a "none" flag.  A UUID value is its integer value.          *)
(*                                                                         *)
(* The service calls repository.create_to_do(entry) and passes the update  *)
(* payload object to repository.update_to_do; the repository class names   *)
(* the insert add_to_do and reads the update data through values.items().  *)
(* The model joins the two layers the way the code base does elsewhere:    *)
(* create_to_do is add_to_do, and the update data is the payload's field   *)
(* dictionary (payload.model_dump(), as in app/webservice.py).             *)
(*                                                                         *)
(* rows is the table in row order, now the clock.  last is the service     *)
(* call that has just completed and before the table as that call found    *)
(* it; created and gone record, once the call has returned, the ids a      *)
(* create_todo call has returned an entry for and the ids whose row a      *)
(* delete_todo call has removed.  calls lists the repository methods the   *)
(* completed call invoked and message is the text of the error it raised.  *)
(*                                                                         *)
(* The validators (business_logic/validators) are pure; check is the       *)
(* validator call under examination, with its argument and its result.     *)
(***************************************************************************)
EXTENDS Integers, Sequences, FiniteSets, TLC

VARIABLES rows, now, last, before, created, gone, calls, message, check,
          request_counter, last_request_time, clock, forwarded, response

\* the globals of the rate limiter, the time time.time() returns, the number
\* of requests handed to call_next since the counter was last set to 0, and
\* what the last dispatch did
limiterVars == <<request_counter, last_request_time, clock, forwarded, response>>

vars == <<rows, now, last, before, created, gone, calls, message, check, limiterVars>>

----------------------------------------------------------------------------
(* Bounds *)

MaxIds == 2

MaxTime == 3

MaxLimit == 2

MaxPage == 3

\* the longest examined validator input, in pieces
MaxPieces == 3

\* the last second of the clock, and the value at which the request counter
\* is no longer driven up
MaxClock == 125

MaxCounter == 102

----------------------------------------------------------------------------
(* Optional values *)

NoneT == [none |-> TRUE, s |-> <<>>]

SomeT(s) == [none |-> FALSE, s |-> s]

NoneB == [none |-> TRUE, b |-> FALSE]

SomeB(b) == [none |-> FALSE, b |-> b]

----------------------------------------------------------------------------
(* Characters *)

UpperSeq == <<"A","B","C","D","E","F","G","H","I","J","K","L","M",
              "N","O","P","Q","R","S","T","U","V","W","X","Y","Z">>

LowerSeq == <<"a","b","c","d","e","f","g","h","i","j","k","l","m",
              "n","o","p","q","r","s","t","u","v","w","x","y","z">>

DigitSeq == <<"0","1","2","3","4","5","6","7","8","9">>

Range(f) == {f[i] : i \in DOMAIN f}

UpperChars == Range(UpperSeq)

WordChars == Range(UpperSeq) \cup Range(LowerSeq) \cup Range(DigitSeq) \cup {"_"}

LowerOf == [c \in UpperChars |-> LowerSeq[CHOOSE i \in DOMAIN UpperSeq : UpperSeq[i] = c]]

\* (?i): a character is compared through its lower-case form
ToLower(c) == IF c \in UpperChars THEN LowerOf[c] ELSE c

\* \w of the regular expression
IsWordChar(c) == c \in WordChars

\* the characters str.strip() removes
IsSpace(c) == c \in {" ", "\t", "\n"}

SetMin(S) == CHOOSE x \in S : \A y \in S : x <= y

SetMax(S) == CHOOSE x \in S : \A y \in S : y <= x

\* str.strip()
Strip(s) ==
    LET keep == {i \in 1..Len(s) : ~IsSpace(s[i])}
    IN IF keep = {} THEN <<>> ELSE SubSeq(s, SetMin(keep), SetMax(keep))

----------------------------------------------------------------------------
(* _SQL_INJECTION_RE of todo_service.py *)

\* operator tokens: -- ; /* */
OperatorTokens == { <<"-","-">>, <<";">>, <<"/","*">>, <<"*","/">> }

\* \bxp_cmdshell\b and the \b(?:...)\b alternatives; exec(?:ute)? is exec and execute
ServiceKeywords ==
    { <<"x","p","_","c","m","d","s","h","e","l","l">>,
      <<"d","r","o","p">>, <<"d","e","l","e","t","e">>, <<"i","n","s","e","r","t">>,
      <<"u","p","d","a","t","e">>, <<"e","x","e","c">>, <<"e","x","e","c","u","t","e">>,
      <<"u","n","i","o","n">>, <<"s","e","l","e","c","t">>,
      <<"s","h","u","t","d","o","w","n">>, <<"c","r","e","a","t","e">>,
      <<"a","l","t","e","r">>, <<"r","e","n","a","m","e">>,
      <<"t","r","u","n","c","a","t","e">>, <<"d","e","c","l","a","r","e">> }

\* tok occurs in s at position i, case-insensitively
HasAt(s, i, tok) ==
    /\ i + Len(tok) - 1 <= Len(s)
    /\ \A k \in 1..Len(tok) : ToLower(s[i + k - 1]) = tok[k]

ContainsToken(s, tok) == \E i \in 1..Len(s) : HasAt(s, i, tok)

\* \bword\b: the occurrence is bounded by non-word characters or the string ends
ContainsWord(s, w) ==
    \E i \in 1..Len(s) :
        /\ HasAt(s, i, w)
        /\ (i = 1 \/ ~IsWordChar(s[i - 1]))
        /\ (i + Len(w) > Len(s) \/ ~IsWordChar(s[i + Len(w)]))

SqlInjectionSearch(s) ==
    \/ \E tok \in OperatorTokens : ContainsToken(s, tok)
    \/ \E w \in ServiceKeywords : ContainsWord(s, w)

\* InputSanitizer._SQL_INJECTION_RE: the same pattern with the keyword OR added
SanitizerKeywords == ServiceKeywords \cup { <<"o","r">> }

\* the keywords matched anywhere in the text instead of as whole words
InputSanitizerSearch_substring(s) ==
    \/ \E tok \in OperatorTokens : ContainsToken(s, tok)
    \/ \E w \in SanitizerKeywords : ContainsToken(s, w)

InputSanitizerSearch(s) ==
    \/ \E tok \in OperatorTokens : ContainsToken(s, tok)
    \/ \E w \in SanitizerKeywords : ContainsWord(s, w)

\* the texts the service calls of the model carry
CreateTitles == { <<"a">>, <<"o","r">>, <<"D","r","o","p">> }

CreateDescriptionTexts == { <<" ","b">>, <<"-","-">> }

UpdateTitleTexts == { <<"c">>, <<"c","/","*">>, <<" ">> }

UpdateDescriptionTexts == { <<"d">>, <<"u","n","i","o","n"," ","d">> }

InputTexts ==
    CreateTitles \cup CreateDescriptionTexts \cup UpdateTitleTexts \cup UpdateDescriptionTexts

\* the search results for those texts, tabulated once
SearchTable == [s \in InputTexts |-> SqlInjectionSearch(s)]

\* sanitize_text: None -> None, a match raises ToDoValidationError, else strip
sanitize_text_raises(value) ==
    /\ ~value.none
    /\ IF value.s \in InputTexts THEN SearchTable[value.s] ELSE SqlInjectionSearch(value.s)

sanitize_text(value) == IF value.none THEN NoneT ELSE SomeT(Strip(value.s))

----------------------------------------------------------------------------
(* validate_uuid of todo_service.py.  uuid.UUID(str(value)) removes the    *)
(* prefixes urn: and uuid:, strips braces, removes hyphens, and wants the  *)
(* hexadecimal digits of the value; the 32 digits are scaled to two.  The  *)
(* remaining text must have that length and is read by int(hex, 16), which *)
(* strips whitespace and takes a sign before the digits (a 0x prefix and   *)
(* underscores between digits need more than two characters).             *)

HexSeq == <<"0","1","2","3","4","5","6","7","8","9","a","b","c","d","e","f">>

HexChars == Range(HexSeq)

HexValOf == [c \in HexChars |-> (CHOOSE i \in DOMAIN HexSeq : HexSeq[i] = c) - 1]

IsHex(c) == ToLower(c) \in HexChars

HexVal(c) == HexValOf[ToLower(c)]

RECURSIVE RemoveAll(_, _)
\* str.replace(tok, '')
RemoveAll(s, tok) ==
    IF Len(s) < Len(tok) THEN s
    ELSE IF SubSeq(s, 1, Len(tok)) = tok
         THEN RemoveAll(SubSeq(s, Len(tok) + 1, Len(s)), tok)
         ELSE <<Head(s)>> \o RemoveAll(Tail(s), tok)

\* str.strip('{}')
StripBraces(s) ==
    LET keep == {i \in 1..Len(s) : s[i] \notin {"{", "}"}}
    IN IF keep = {} THEN <<>> ELSE SubSeq(s, SetMin(keep), SetMax(keep))

UuidHex(text) ==
    RemoveAll(StripBraces(RemoveAll(RemoveAll(text, <<"u","r","n",":">>),
                                    <<"u","u","i","d",":">>)), <<"-">>)

\* the digits int(hex, 16) reads: whitespace around them and a leading plus
\* sign are dropped (a minus sign never gets here, hyphens are removed before)
IntDigits(hex) ==
    LET s == Strip(hex)
    IN IF s # <<>> /\ Head(s) = "+" THEN Tail(s) ELSE s

\* uuid.UUID(text) raises ValueError
UuidParseFails(text) ==
    LET hex == UuidHex(text)
        digits == IntDigits(hex)
    IN Len(hex) # 2 \/ digits = <<>> \/ \E i \in 1..Len(digits) : ~IsHex(digits[i])

UuidParse(text) ==
    LET digits == IntDigits(UuidHex(text))
    IN IF Len(digits) = 1 THEN HexVal(digits[1])
       ELSE 16 * HexVal(digits[1]) + HexVal(digits[2])

\* str(u) for a UUID value: hyphenated lower-case digits
UuidStr(u) == <<HexSeq[(u \div 16) + 1], "-", HexSeq[(u % 16) + 1]>>

UuidArg(u) == [isUuid |-> TRUE, u |-> u, text |-> <<>>]

TextArg(t) == [isUuid |-> FALSE, u |-> 0, text |-> t]

validate_uuid_raises(value) == ~value.isUuid /\ UuidParseFails(value.text)

validate_uuid(value) == IF value.isUuid THEN value.u ELSE UuidParse(value.text)

----------------------------------------------------------------------------
(* The toDo table and ToDoEntryData *)

\* a mapped row as the insert leaves it; title and done are NOT NULL columns,
\* description is nullable, updated_at 0 is NULL.  add_to_do gives updated_at
\* the value None, which the insert leaves out, so that the column's
\* default=func.now() fills it with the time of the insert
Row(id, title, description, created_at) ==
    [id |-> id, title |-> title, description |-> description,
     created_at |-> created_at, updated_at |-> created_at, deleted |-> FALSE,
     done |-> FALSE]

\* query(ToDoEntryData).filter_by(id=...).first()
Positions(table, id) == {i \in 1..Len(table) : table[i].id = id}

Stored(table, id) == Positions(table, id) # {}

First(table, id) == SetMin(Positions(table, id))

\* truthiness of an attribute value, as "not getattr(self, key)" reads it
TruthyT(t) == ~t.none /\ t.s # <<>>

\* ToDoEntryData.update over the keys id, title, description, done: a key whose
\* current value is falsy is skipped, any other key is set to the given value
EntryUpdate(row, values) ==
    [id          |-> values.id,
     title       |-> IF TruthyT(SomeT(row.title)) THEN values.title ELSE SomeT(row.title),
     description |-> IF TruthyT(row.description) THEN values.description ELSE row.description,
     done        |-> IF row.done THEN values.done ELSE SomeB(row.done),
     created_at  |-> row.created_at,
     updated_at  |-> row.updated_at,
     deleted     |-> row.deleted]

\* the commit of an updated entry violates NOT NULL on title or done, or the
\* primary key
UpdateIntegrityError(table, pos, e) ==
    \/ e.title.none
    \/ e.done.none
    \/ \E j \in 1..Len(table) : j # pos /\ table[j].id = e.id

Committed(e) ==
    [id |-> e.id, title |-> e.title.s, description |-> e.description,
     created_at |-> e.created_at, updated_at |-> e.updated_at,
     deleted |-> e.deleted, done |-> e.done.b]

\* ToDoRepository.add_to_do: a new row with created_at now, no updated_at,
\* done and deleted false; a stored id raises IntegrityError
add_to_do_raises(table, entry) == Stored(table, entry.id)

add_to_do(table, entry, t) ==
    Append(table, Row(entry.id, entry.title, entry.description, t))

\* ToDoRepository.delete_to_do: ValueError when no row has the id, otherwise
\* the row is removed and None is returned
delete_to_do_raises(table, id) == ~Stored(table, id)

delete_to_do(table, id) ==
    LET keep == {i \in 1..Len(table) : table[i].id # id}
        Nth(k) == CHOOSE i \in keep : Cardinality({j \in keep : j <= i}) = k
    IN [k \in 1..Cardinality(keep) |-> table[Nth(k)]]

\* ToDoRepository.get_all_to_do_entries: limit(limit).offset((page - 1) * limit)
get_all_to_do_entries(table, limit, page) ==
    LET skip == (page - 1) * limit
        lo == skip + 1
        hi == IF skip + limit < Len(table) THEN skip + limit ELSE Len(table)
    IN SubSeq(table, lo, hi)

----------------------------------------------------------------------------
(* ToDoSchema of schemas/todo.py *)

\* ToDoSchema.model_validate(entry) succeeds: title and description are
\* strings that are not empty after strip
SchemaValid(title, description) ==
    /\ ~title.none /\ Strip(title.s) # <<>>
    /\ ~description.none /\ Strip(description.s) # <<>>

ToSchema(id, title, description, created_at, updated_at, deleted, done) ==
    [id |-> id, title |-> Strip(title.s), description |-> Strip(description.s),
     created_at |-> created_at, updated_at |-> updated_at,
     deleted |-> deleted, done |-> done]

RowSchemaValid(r) == SchemaValid(SomeT(r.title), r.description)

RowSchema(r) ==
    ToSchema(r.id, SomeT(r.title), r.description, r.created_at, r.updated_at,
             r.deleted, r.done)

----------------------------------------------------------------------------
(* business_logic/validators: InputSanitizer and FieldValidator *)

\* what a validator call ends in: the error it raises, with the parts of its
\* message, or the value it returns
Raised(parts) == [raises |-> TRUE, message |-> parts, value |-> NoneT]

Returned(value) == [raises |-> FALSE, message |-> <<>>, value |-> value]

\* InputSanitizer.validate removing one whitespace character at each end
\* instead of all of them
InputSanitizer_validate_strip_one(value) ==
    LET s == value.s
        a == IF s # <<>> /\ IsSpace(Head(s)) THEN Tail(s) ELSE s
        b == IF a # <<>> /\ IsSpace(a[Len(a)]) THEN SubSeq(a, 1, Len(a) - 1) ELSE a
    IN IF value.none THEN Returned(NoneT)
       ELSE IF InputSanitizerSearch(s)
       THEN Raised(<<"Invalid characters or SQL keywords in input", s>>)
       ELSE Returned(SomeT(b))

\* InputSanitizer.validate: None is returned as None; a string the pattern
\* matches raises ToDoValidationError with the offending value; any other
\* string is returned stripped
InputSanitizer_validate(value) ==
    IF value.none THEN Returned(NoneT)
    ELSE IF InputSanitizerSearch(value.s)
    THEN Raised(<<"Invalid characters or SQL keywords in input", value.s>>)
    ELSE Returned(SomeT(Strip(value.s)))

\* FieldValidator.validate_required: the sanitizer's error passes through; a
\* sanitized value that is None or empty raises "<field_name> is required"
validate_required(value, field_name) ==
    LET sanitized == InputSanitizer_validate(value)
    IN IF sanitized.raises THEN sanitized
       ELSE IF ~TruthyT(sanitized.value)
       THEN Raised(<<"Invalid payload: ", field_name, " is required">>)
       ELSE Returned(sanitized.value)

\* validate_optional returning the sanitized value as it is, None included
validate_optional_as_sanitized(value) == InputSanitizer_validate(value)

\* FieldValidator.validate_optional: a sanitized value that is None or empty
\* is returned as the empty string
validate_optional(value) ==
    LET sanitized == InputSanitizer_validate(value)
    IN IF sanitized.raises THEN sanitized
       ELSE IF ~TruthyT(sanitized.value)
       THEN Returned(SomeT(<<>>))
       ELSE Returned(sanitized.value)

\* UUIDValidator.validate: a UUID value is returned as it is; any other value
\* is parsed from its string form, and a ValueError of the parse becomes
\* ToDoValidationError with the value
UUIDValidator_validate(value) ==
    IF value.isUuid THEN Returned(value.u)
    ELSE IF UuidParseFails(value.text) THEN Raised(<<"Invalid UUID", value.text>>)
    ELSE Returned(UuidParse(value.text))

\* the pieces the examined identifiers are made of: digits in both cases,
\* the hyphen, the braces, the URN prefix, and characters of no UUID form
UuidPieces ==
    { <<"0">>, <<"a">>, <<"B">>, <<"0","a">>, <<"-">>, <<"{">>, <<"}">>,
      <<"u","r","n",":","u","u","i","d",":">>, <<"+">>, <<" ">>, <<"g">> }

RECURSIVE UuidTextsOf(_)
UuidTextsOf(n) ==
    IF n = 0 THEN { <<>> }
    ELSE LET shorter == UuidTextsOf(n - 1)
         IN shorter \cup { s \o piece : s \in shorter, piece \in UuidPieces }

\* the identifiers given to UUIDValidator.validate: UUID values and every
\* string of up to MaxPieces pieces
UuidValues ==
    { UuidArg(u) : u \in {1, 10, 171} } \cup { TextArg(s) : s \in UuidTextsOf(MaxPieces) }

\* the outcome of a build with the validator calls made, in order
Built(outcome, validator_calls) ==
    [raises |-> outcome.raises, message |-> outcome.message, value |-> outcome.value,
     calls |-> validator_calls]

\* the payload handed to the builder: absent, or a ToDoCreateEntry whose id
\* may be None
BuilderPayload(id, title, description) ==
    [none |-> FALSE, id |-> id, title |-> title, description |-> description]

NoBuilderPayload ==
    [none |-> TRUE, id |-> [none |-> TRUE, v |-> TextArg(<<>>)], title |-> NoneT, description |-> NoneT]

\* build_from_create_schema validating the title before the id
build_from_create_schema_title_first(payload, at) ==
    LET id == UUIDValidator_validate(payload.id.v)
        title == validate_required(payload.title, "title")
        description == validate_optional(payload.description)
    IN IF payload.none
       THEN Built(Raised(<<"Invalid payload: payload cannot be None">>), <<>>)
       ELSE IF payload.id.none
       THEN Built(Raised(<<"Invalid payload: id is required">>), <<>>)
       ELSE IF title.raises
       THEN Built(title, <<"field_validator.validate_required">>)
       ELSE IF id.raises
       THEN Built(id, <<"field_validator.validate_required", "uuid_validator.validate">>)
       ELSE IF description.raises
       THEN Built(description, <<"field_validator.validate_required", "uuid_validator.validate",
                                 "field_validator.validate_optional">>)
       ELSE Built(Returned([id |-> id.value, title |-> title.value,
                            description |-> description.value, created_at |-> at,
                            updated_at |-> 0, deleted |-> FALSE, done |-> FALSE]),
                  <<"field_validator.validate_required", "uuid_validator.validate",
                    "field_validator.validate_optional">>)

\* EntryBuilder.build_from_create_schema: an absent payload or id raises at
\* once; the arguments of ToDoEntryData are evaluated from left to right, and
\* the first validator that raises ends the build; updated_at is None (0)
build_from_create_schema(payload, at) ==
    LET id == UUIDValidator_validate(payload.id.v)
        title == validate_required(payload.title, "title")
        description == validate_optional(payload.description)
    IN IF payload.none
       THEN Built(Raised(<<"Invalid payload: payload cannot be None">>), <<>>)
       ELSE IF payload.id.none
       THEN Built(Raised(<<"Invalid payload: id is required">>), <<>>)
       ELSE IF id.raises
       THEN Built(id, <<"uuid_validator.validate">>)
       ELSE IF title.raises
       THEN Built(title, <<"uuid_validator.validate", "field_validator.validate_required">>)
       ELSE IF description.raises
       THEN Built(description, <<"uuid_validator.validate", "field_validator.validate_required",
                                 "field_validator.validate_optional">>)
       ELSE Built(Returned([id |-> id.value, title |-> title.value,
                            description |-> description.value, created_at |-> at,
                            updated_at |-> 0, deleted |-> FALSE, done |-> FALSE]),
                  <<"uuid_validator.validate", "field_validator.validate_required",
                    "field_validator.validate_optional">>)

\* the payloads given to the builder
BuilderIds ==
    { [none |-> TRUE, v |-> TextArg(<<>>)] }
    \cup { [none |-> FALSE, v |-> v] :
             v \in { UuidArg(1), TextArg(<<"0","a">>), TextArg(<<"{","0","-","B","}">>),
                     TextArg(<<"x">>), TextArg(<<>>) } }

BuilderTitles == {NoneT} \cup { SomeT(s) : s \in CreateTitles \cup { <<" ">>, <<" ","a"," ">>, <<>> } }

BuilderDescriptions ==
    {NoneT} \cup { SomeT(s) : s \in CreateDescriptionTexts \cup { <<" ">>, <<"d","e","l","e","t","e">> } }

BuilderPayloads ==
    { NoBuilderPayload }
    \cup { BuilderPayload(id, title, description) :
             id \in BuilderIds, title \in BuilderTitles, description \in BuilderDescriptions }

\* what a wrapped operation ends in: its return, or the class of the
\* exception it raises (ValueError stands for every class without a clause
\* of its own)
OperationEnds ==
    { "return", "ToDoValidationError", "ToDoNotFoundError", "IntegrityError",
      "ToDoAlreadyExistsError", "ToDoRepositoryError", "ValueError" }

\* handle_service_exceptions: ToDoValidationError and ToDoNotFoundError are
\* raised again, IntegrityError becomes ToDoAlreadyExistsError, and every
\* other exception reaches "except Exception" and becomes ToDoRepositoryError
handle_service_exceptions(end) ==
    IF end \in {"return", "ToDoValidationError", "ToDoNotFoundError"} THEN end
    ELSE IF end = "IntegrityError" THEN "ToDoAlreadyExistsError"
    ELSE "ToDoRepositoryError"

\* the end of a wrapped call as a validator-call outcome
Ended(end) == [raises |-> end # "return", message |-> <<>>, value |-> NoneT, kind |-> end]

\* the pieces the examined strings are made of: a keyword, a letter that
\* extends it, a space, a keyword in mixed case, the characters of the
\* operator tokens, and the underscore
Pieces ==
    { <<"u","p","d","a","t","e">>, <<"d">>, <<" ">>, <<"O","r">>,
      <<"-">>, <<";">>, <<"/">>, <<"*">>, <<"_">> }

RECURSIVE TextsOf(_)
TextsOf(n) ==
    IF n = 0 THEN { <<>> }
    ELSE LET shorter == TextsOf(n - 1)
         IN shorter \cup { s \o piece : s \in shorter, piece \in Pieces }

\* the values given to a validator: None and every string of up to MaxPieces
\* pieces
ValidatorValues == {NoneT} \cup { SomeT(s) : s \in TextsOf(MaxPieces) }

FieldNames == { "title", "description" }

\* a validator call: the method, its argument, the field name (required
\* validation only), its outcome, and the outcome of validating its result
\* once more (repeated sanitization only)
Check(fn, arg, field_name, out, again) ==
    [fn |-> fn, arg |-> arg, field_name |-> field_name, out |-> out, again |-> again]

NoCheck == Check("idle", NoneT, "", Returned(NoneT), Returned(NoneT))

----------------------------------------------------------------------------
(* Inputs *)

Uuids == 1..MaxIds

\* ToDoCreateEntry: title is validated non-blank and stripped by the schema,
\* description is optional
CreateDescriptions == {NoneT} \cup {SomeT(t) : t \in CreateDescriptionTexts}

\* TodoUpdateEntry: title, description and done are optional
UpdateTitles == {NoneT} \cup {SomeT(t) : t \in UpdateTitleTexts}

UpdateDescriptions == {NoneT} \cup {SomeT(t) : t \in UpdateDescriptionTexts}

UpdateDone == { NoneB, SomeB(TRUE) }

\* identifiers given to get_todo and delete_todo: UUID objects, their string
\* forms, and strings that are no UUID
IdArgs ==
    {UuidArg(u) : u \in Uuids} \cup {TextArg(UuidStr(u)) : u \in Uuids}
    \cup { TextArg(<<"x">>), TextArg(<<"'",";","-","-">>) }

Payload(id, title, description, done) ==
    [id |-> id, title |-> title, description |-> description, done |-> done]

NoPayload == Payload(0, NoneT, NoneT, NoneB)

NoArg == TextArg(<<>>)

Call(op, arg, payload, limit, page, res, ret) ==
    [op |-> op, arg |-> arg, payload |-> payload, limit |-> limit, page |-> page,
     res |-> res, ret |-> ret]

Idle == Call("idle", NoArg, NoPayload, 0, 0, "ok", <<>>)

\* what a service call leaves: the error kind it raises or "ok", the entries
\* it returns, and the table
Outcome(res, ret, table) == [res |-> res, ret |-> ret, rows |-> table]

----------------------------------------------------------------------------
(* ToDoService *)

\* create_todo: both texts are sanitized, then the entry is inserted, then
\* converted to ToDoSchema; IntegrityError becomes AlreadyExists,
\* ToDoValidationError is raised again, anything else becomes RepositoryError
create_todo_outcome(table, payload, t) ==
    LET title == sanitize_text(payload.title)
        description == sanitize_text(payload.description)
        entry == [id |-> payload.id, title |-> title.s, description |-> description]
    IN IF sanitize_text_raises(payload.title) \/ sanitize_text_raises(payload.description)
       THEN Outcome("ValidationError", <<>>, table)
       ELSE IF add_to_do_raises(table, entry)
       THEN Outcome("AlreadyExists", <<>>, table)
       ELSE IF ~SchemaValid(title, description)
       THEN Outcome("RepositoryError", <<>>, add_to_do(table, entry, t))
       ELSE Outcome("ok",
                    <<ToSchema(payload.id, title, description, t, 0, FALSE, FALSE)>>,
                    add_to_do(table, entry, t))

\* get_todo with validate_uuid moved into the try block of the lookup, as
\* delete_todo has it
get_todo_outcome_one_try(table, arg) ==
    IF validate_uuid_raises(arg) \/ ~Stored(table, validate_uuid(arg))
    THEN Outcome("RepositoryError", <<>>, table)
    ELSE IF ~RowSchemaValid(table[First(table, validate_uuid(arg))])
    THEN Outcome("RepositoryError", <<>>, table)
    ELSE Outcome("ok", <<RowSchema(table[First(table, validate_uuid(arg))])>>, table)

\* get_todo: the id is validated first; the lookup's ValueError and a failed
\* conversion both reach "except Exception"
get_todo_outcome(table, arg) ==
    IF validate_uuid_raises(arg)
    THEN Outcome("ValidationError", <<>>, table)
    ELSE IF ~Stored(table, validate_uuid(arg))
    THEN Outcome("RepositoryError", <<>>, table)
    ELSE IF ~RowSchemaValid(table[First(table, validate_uuid(arg))])
    THEN Outcome("RepositoryError", <<>>, table)
    ELSE Outcome("ok", <<RowSchema(table[First(table, validate_uuid(arg))])>>, table)

\* the update data the repository reads: the payload's fields after the
\* service has replaced title and description by their sanitized values
UpdateValues(payload) ==
    Payload(payload.id, sanitize_text(payload.title),
            sanitize_text(payload.description), payload.done)

\* ToDoRepository.update_to_do raises IntegrityError at commit
update_to_do_raises(table, id, values) ==
    UpdateIntegrityError(table, First(table, id),
                         EntryUpdate(table[First(table, id)], values))

update_to_do(table, id, values) ==
    [table EXCEPT ![First(table, id)] = Committed(EntryUpdate(table[First(table, id)], values))]

\* update_todo: the texts are sanitized, the repository updates the first row
\* with the id (ValueError when there is none), the updated entry is converted
update_todo_outcome(table, id, payload) ==
    LET values == UpdateValues(payload)
        updated == update_to_do(table, id, values)
    IN IF sanitize_text_raises(payload.title) \/ sanitize_text_raises(payload.description)
       THEN Outcome("ValidationError", <<>>, table)
       ELSE IF ~Stored(table, id)
       THEN Outcome("RepositoryError", <<>>, table)
       ELSE IF update_to_do_raises(table, id, values)
       THEN Outcome("AlreadyExists", <<>>, table)
       ELSE IF ~RowSchemaValid(updated[First(table, id)])
       THEN Outcome("RepositoryError", <<>>, updated)
       ELSE Outcome("ok", <<RowSchema(updated[First(table, id)])>>, updated)

\* delete_todo: validate_uuid runs inside the try block, so its
\* ToDoValidationError reaches "except Exception"; the repository returns None
\* after a delete, which "if not deleted" reads as not found
delete_todo_outcome(table, arg) ==
    IF validate_uuid_raises(arg)
    THEN Outcome("RepositoryError", <<>>, table)
    ELSE IF delete_to_do_raises(table, validate_uuid(arg))
    THEN Outcome("RepositoryError", <<>>, table)
    ELSE Outcome("NotFound", <<>>, delete_to_do(table, validate_uuid(arg)))

\* the entries of a page that convert, in the repository's order
RECURSIVE Converted(_)
Converted(entries) ==
    IF entries = <<>> THEN <<>>
    ELSE (IF RowSchemaValid(Head(entries)) THEN <<RowSchema(Head(entries))>> ELSE <<>>)
         \o Converted(Tail(entries))

\* get_all_todos failing as a whole on an entry that fails conversion
get_all_todos_outcome_fatal(table, limit, page) ==
    LET entries == get_all_to_do_entries(table, limit, page)
    IN IF \E i \in DOMAIN entries : ~RowSchemaValid(entries[i])
       THEN Outcome("RepositoryError", <<>>, table)
       ELSE Outcome("ok", Converted(entries), table)

\* get_all_todos: an entry that fails conversion is skipped
get_all_todos_outcome(table, limit, page) ==
    Outcome("ok", Converted(get_all_to_do_entries(table, limit, page)), table)

----------------------------------------------------------------------------
(* The repository methods a service call invokes and the text of its error *)

\* the message sanitize_text gives its ToDoValidationError (the offending
\* value follows it)
sanitize_text_message == "Invalid characters or SQL keywords in input"

\* the message validate_uuid gives its ToDoValidationError
validate_uuid_message == "Invalid UUID"

\* an exception class raised without arguments has the empty text
NoMessage == ""

\* create_todo: the insert is reached once both texts are sanitized
create_todo_calls(table, payload) ==
    IF sanitize_text_raises(payload.title) \/ sanitize_text_raises(payload.description)
    THEN <<>> ELSE <<"create_to_do">>

\* create_todo: "raise ToDoValidationError from ve", "raise
\* ToDoAlreadyExistsError" and "raise ToDoRepositoryError from exc" raise the
\* bare class
create_todo_message(table, payload) == NoMessage

\* get_todo: validate_uuid runs in a try block of its own, before the lookup
get_todo_calls(table, arg) ==
    IF validate_uuid_raises(arg) THEN <<>> ELSE <<"get_to_do_entry">>

\* get_todo: the error of validate_uuid is raised again as it is ("raise")
get_todo_message(table, arg) ==
    IF validate_uuid_raises(arg) THEN validate_uuid_message ELSE NoMessage

update_todo_calls(table, id, payload) ==
    IF sanitize_text_raises(payload.title) \/ sanitize_text_raises(payload.description)
    THEN <<>> ELSE <<"update_to_do">>

\* update_todo: "raise ToDoValidationError from ve" raises the bare class
update_todo_message(table, id, payload) == NoMessage

\* delete_todo: validate_uuid is evaluated as the argument of delete_to_do
delete_todo_calls(table, arg) ==
    IF validate_uuid_raises(arg) THEN <<>> ELSE <<"delete_to_do">>

delete_todo_message(table, arg) == NoMessage

get_all_todos_calls(table, limit, page) == <<"get_all_to_do_entries">>

get_all_todos_message(table, limit, page) == NoMessage

----------------------------------------------------------------------------
(* api/api.py: RateLimiterMiddleware.  Time is counted in whole seconds     *)
(* from the import of the module, when last_request_time is set.           *)

rate_limit_window == 60

max_requests_per_window == 100

\* dispatch comparing the counter with the limit before it counts the request
dispatch_check_before_count(counter, last_time, current_time) ==
    LET reset == current_time - last_time > rate_limit_window
        start == IF reset THEN 0 ELSE counter
    IN [request_counter |-> start + 1,
        last_request_time |-> IF reset THEN current_time ELSE last_time,
        reset |-> reset,
        status_code |-> IF start > max_requests_per_window THEN 429 ELSE 200]

\* RateLimiterMiddleware.dispatch up to its response: more than
\* rate_limit_window seconds after last_request_time the counter is set to 0
\* and last_request_time to the current time; the request is counted; a
\* counter above max_requests_per_window answers 429, any other request is
\* handed to call_next (200 stands for the application's response)
dispatch(counter, last_time, current_time) ==
    LET reset == current_time - last_time > rate_limit_window
        start == IF reset THEN 0 ELSE counter
    IN [request_counter |-> start + 1,
        last_request_time |-> IF reset THEN current_time ELSE last_time,
        reset |-> reset,
        status_code |-> IF start + 1 > max_requests_per_window THEN 429 ELSE 200]

\* what a dispatch did: its status code, whether it set the counter to 0, the
\* seconds since last_request_time at its arrival, and the requests handed to
\* call_next before it since the counter was last set to 0
Dispatched(status_code, reset, waited, forwarded_before) ==
    [status_code |-> status_code, reset |-> reset, waited |-> waited,
     forwarded_before |-> forwarded_before]

NoResponse == Dispatched(0, FALSE, 0, 0)

\* the seconds that pass between two looks at the clock
Pauses == {30, 31}

----------------------------------------------------------------------------
(* Actions: one service call each, taken when no call is in progress *)

create_todo(payload) ==
    LET out == create_todo_outcome(rows, payload, now)
    IN /\ out.rows # rows => now < MaxTime
       /\ rows' = out.rows
       /\ now' = IF out.rows # rows THEN now + 1 ELSE now
       /\ before' = rows
       /\ UNCHANGED <<created, gone, check, limiterVars>>
       /\ calls' = create_todo_calls(rows, payload)
       /\ message' = create_todo_message(rows, payload)
       /\ last' = Call("create_todo", UuidArg(payload.id), payload, 0, 0, out.res, out.ret)

get_todo(arg) ==
    LET out == get_todo_outcome(rows, arg)
    IN /\ before' = rows
       /\ UNCHANGED <<rows, now, created, gone, check, limiterVars>>
       /\ calls' = get_todo_calls(rows, arg)
       /\ message' = get_todo_message(rows, arg)
       /\ last' = Call("get_todo", arg, NoPayload, 0, 0, out.res, out.ret)

update_todo(id, payload) ==
    LET out == update_todo_outcome(rows, id, payload)
    IN /\ rows' = out.rows
       /\ before' = rows
       /\ UNCHANGED <<now, created, gone, check, limiterVars>>
       /\ calls' = update_todo_calls(rows, id, payload)
       /\ message' = update_todo_message(rows, id, payload)
       /\ last' = Call("update_todo", UuidArg(id), payload, 0, 0, out.res, out.ret)

delete_todo(arg) ==
    LET out == delete_todo_outcome(rows, arg)
    IN /\ rows' = out.rows
       /\ before' = rows
       /\ UNCHANGED <<now, created, gone, check, limiterVars>>
       /\ calls' = delete_todo_calls(rows, arg)
       /\ message' = delete_todo_message(rows, arg)
       /\ last' = Call("delete_todo", arg, NoPayload, 0, 0, out.res, out.ret)

get_all_todos(limit, page) ==
    LET out == get_all_todos_outcome(rows, limit, page)
    IN /\ before' = rows
       /\ UNCHANGED <<rows, now, created, gone, check, limiterVars>>
       /\ calls' = get_all_todos_calls(rows, limit, page)
       /\ message' = get_all_todos_message(rows, limit, page)
       /\ last' = Call("get_all_todos", NoArg, NoPayload, limit, page, out.res, out.ret)

----------------------------------------------------------------------------
(* Specification *)

Init ==
    /\ rows = <<>>
    /\ now = 1
    /\ before = <<>>
    /\ created = {}
    /\ gone = {}
    /\ last = Idle
    /\ calls = <<>>
    /\ message = NoMessage
    /\ check = NoCheck
    /\ request_counter = 0
    /\ last_request_time = 0
    /\ clock = 0
    /\ forwarded = 0
    /\ response = NoResponse

Create ==
    /\ last.op = "idle"
    /\ \E id \in Uuids, title \in CreateTitles, description \in CreateDescriptions :
          create_todo(Payload(id, SomeT(title), description, NoneB))

Get == last.op = "idle" /\ \E arg \in IdArgs : get_todo(arg)

Update ==
    /\ last.op = "idle"
    /\ \E id \in Uuids, pid \in Uuids, title \in UpdateTitles,
          description \in UpdateDescriptions, done \in UpdateDone :
          update_todo(id, Payload(pid, title, description, done))

Delete == last.op = "idle" /\ \E arg \in IdArgs : delete_todo(arg)

List ==
    /\ last.op = "idle"
    /\ \E limit \in 1..MaxLimit, page \in 1..MaxPage : get_all_todos(limit, page)

\* the caller has taken the result and the service awaits the next call; a
\* create_todo that returned an entry and a delete_todo that removed a row
\* are recorded
Return ==
    /\ last.op # "idle"
    /\ last' = Idle
    /\ before' = rows
    /\ created' = IF last.op = "create_todo" /\ last.res = "ok"
                  THEN created \cup {last.payload.id} ELSE created
    /\ gone' = IF last.op = "delete_todo" /\ rows # before
               THEN gone \cup {validate_uuid(last.arg)} ELSE gone
    /\ calls' = <<>>
    /\ message' = NoMessage
    /\ UNCHANGED <<rows, now, check, limiterVars>>

Next == Create \/ Get \/ Update \/ Delete \/ List \/ Return

Spec == Init /\ [][Next]_vars

\* the caller has taken the result and the service awaits the next call, with
\* no record kept of the calls made so far
Await ==
    /\ last.op # "idle"
    /\ last' = Idle
    /\ before' = rows
    /\ calls' = <<>>
    /\ message' = NoMessage
    /\ UNCHANGED <<rows, now, created, gone, check, limiterVars>>

ServiceNext == Create \/ Get \/ Update \/ Delete \/ List \/ Await

\* the service as Spec has it, without the history kept in created and gone
ServiceSpec == Init /\ [][ServiceNext]_vars

----------------------------------------------------------------------------
(* The validators on their own: one validator call at a time *)

Sanitize ==
    /\ check.fn = "idle"
    /\ \E value \in ValidatorValues :
          check' = Check("InputSanitizer.validate", value, "",
                         InputSanitizer_validate(value), Returned(NoneT))
    /\ UNCHANGED <<rows, now, last, before, created, gone, calls, message, limiterVars>>

\* the sanitizer applied to a value and, when it returns, to what it returned
SanitizeTwice ==
    /\ check.fn = "idle"
    /\ \E value \in ValidatorValues :
          LET first == InputSanitizer_validate(value)
          IN check' = Check("InputSanitizer.validate twice", value, "", first,
                            IF first.raises THEN first
                            ELSE InputSanitizer_validate(first.value))
    /\ UNCHANGED <<rows, now, last, before, created, gone, calls, message, limiterVars>>

ValidateRequired ==
    /\ check.fn = "idle"
    /\ \E value \in ValidatorValues, field_name \in FieldNames :
          check' = Check("validate_required", value, field_name,
                         validate_required(value, field_name), Returned(NoneT))
    /\ UNCHANGED <<rows, now, last, before, created, gone, calls, message, limiterVars>>

ValidateOptional ==
    /\ check.fn = "idle"
    /\ \E value \in ValidatorValues :
          check' = Check("validate_optional", value, "",
                         validate_optional(value), Returned(NoneT))
    /\ UNCHANGED <<rows, now, last, before, created, gone, calls, message, limiterVars>>

ValidateUuid ==
    /\ check.fn = "idle"
    /\ \E value \in UuidValues :
          check' = Check("UUIDValidator.validate", value, "",
                         UUIDValidator_validate(value), Returned(NoneT))
    /\ UNCHANGED <<rows, now, last, before, created, gone, calls, message, limiterVars>>

Build ==
    /\ check.fn = "idle"
    /\ \E payload \in BuilderPayloads :
          check' = Check("EntryBuilder.build_from_create_schema", payload, "",
                         build_from_create_schema(payload, now), Returned(NoneT))
    /\ UNCHANGED <<rows, now, last, before, created, gone, calls, message, limiterVars>>

\* an operation wrapped once, and the same operation wrapped twice
Wrap ==
    /\ check.fn = "idle"
    /\ \E end \in OperationEnds :
          check' = Check("handle_service_exceptions", end, "",
                         Ended(handle_service_exceptions(end)),
                         Ended(handle_service_exceptions(handle_service_exceptions(end))))
    /\ UNCHANGED <<rows, now, last, before, created, gone, calls, message, limiterVars>>

ValidatorReturn ==
    /\ check.fn # "idle"
    /\ check' = NoCheck
    /\ UNCHANGED <<rows, now, last, before, created, gone, calls, message, limiterVars>>

ValidatorNext ==
    \/ Sanitize \/ SanitizeTwice \/ ValidateRequired \/ ValidateOptional
    \/ ValidateUuid \/ Build \/ Wrap
    \/ ValidatorReturn

ValidatorSpec == Init /\ [][ValidatorNext]_vars

----------------------------------------------------------------------------
(* The rate limiter on its own: requests arriving as time passes *)

serviceVars == <<rows, now, last, before, created, gone, calls, message, check>>

\* one request passes through the middleware
Dispatch ==
    LET out == dispatch(request_counter, last_request_time, clock)
    IN /\ out.request_counter <= MaxCounter
       /\ request_counter' = out.request_counter
       /\ last_request_time' = out.last_request_time
       /\ forwarded' = (IF out.reset THEN 0 ELSE forwarded)
                       + (IF out.status_code = 429 THEN 0 ELSE 1)
       /\ response' = Dispatched(out.status_code, out.reset,
                                 clock - last_request_time, forwarded)
       /\ UNCHANGED <<clock, serviceVars>>

\* time.time() moves on
Tick ==
    /\ \E pause \in Pauses :
          /\ clock + pause <= MaxClock
          /\ clock' = clock + pause
    /\ UNCHANGED <<request_counter, last_request_time, forwarded, response, serviceVars>>

RateLimiterNext == Dispatch \/ Tick

RateLimiterSpec == Init /\ [][RateLimiterNext]_vars

----------------------------------------------------------------------------
(* Properties of the completed call *)

\* the UUID the completed call addressed
CalledId == validate_uuid(last.arg)

\* the text is one InputSanitizer rejects: an injection pattern of the detection rule
HasInjection(t) == ~t.none /\ InputSanitizerSearch(t.s)

PayloadHasInjection(p) == HasInjection(p.title) \/ HasInjection(p.description)

\* the position the addressed row had before the call
CalledPos == First(before, CalledId)

Ids(entries) == [i \in DOMAIN entries |-> entries[i].id]

\* C1: once delete_todo(id) has taken effect, every later get_todo(id) raises
\* NotFound and no later get_all_todos result contains id
C1_SoftDeleteExclusion ==
    /\ (last.op = "get_todo" /\ ~validate_uuid_raises(last.arg) /\ CalledId \in gone)
       => last.res = "NotFound"
    /\ last.op = "get_all_todos" => \A i \in DOMAIN last.ret : last.ret[i].id \notin gone

\* C2: delete_todo on a stored entry returns true, and a delete_todo on an id
\* that a delete has just removed raises NotFound
C2_DoubleDelete ==
    (last.op = "delete_todo" /\ ~validate_uuid_raises(last.arg)) =>
        /\ Stored(before, CalledId) => last.res = "ok"
        /\ (~Stored(before, CalledId) /\ CalledId \in gone) => last.res = "NotFound"

\* C3: once create_todo has succeeded for an id, every create_todo with that id
\* and a payload that passes validation raises AlreadyExists and leaves the
\* stored entries as they were
C3_CreateDuplicate ==
    (/\ last.op = "create_todo"
     /\ last.payload.id \in created
     /\ ~PayloadHasInjection(last.payload))
    => (last.res = "AlreadyExists" /\ rows = before)

\* C4: update_todo leaves every field the payload omits (title, description,
\* done) of the addressed entry as it was before the call
C4_PartialUpdate ==
    (/\ last.op = "update_todo"
     /\ Stored(before, CalledId)
     /\ ~PayloadHasInjection(last.payload))
    => /\ last.payload.title.none => rows[CalledPos].title = before[CalledPos].title
       /\ last.payload.description.none
            => rows[CalledPos].description = before[CalledPos].description
       /\ last.payload.done.none => rows[CalledPos].done = before[CalledPos].done

\* C5: update_todo(id, {done: true}) on a stored entry with done = false leaves
\* it with done = true and the same title and description, and returns it
C5_MarkDone ==
    (/\ last.op = "update_todo"
     /\ last.payload = Payload(CalledId, NoneT, NoneT, SomeB(TRUE))
     /\ Stored(before, CalledId)
     /\ ~before[CalledPos].done)
    => /\ last.res = "ok"
       /\ rows[CalledPos].done
       /\ rows[CalledPos].title = before[CalledPos].title
       /\ rows[CalledPos].description = before[CalledPos].description
       /\ Len(last.ret) = 1 /\ last.ret[1].done /\ last.ret[1].id = CalledId

\* C6: create_todo or update_todo whose title or description contains an
\* injection pattern raises ValidationError and writes nothing
C6_InjectionRejected ==
    (last.op \in {"create_todo", "update_todo"} /\ PayloadHasInjection(last.payload))
    => (last.res = "ValidationError" /\ rows = before)

\* C7: get_all_todos(limit, page) returns exactly the stored entries at
\* positions (page-1)*limit .. min(page*limit, N)-1 (counted from 0), in order
C7_Pagination ==
    last.op = "get_all_todos" =>
        LET n == Len(before)
            lo == (last.page - 1) * last.limit + 1
            hi == IF last.page * last.limit < n THEN last.page * last.limit ELSE n
        IN Ids(last.ret) = Ids(SubSeq(before, lo, hi))

\* C8: get_todo with a well-formed id that no stored entry has raises NotFound
C8_GetNotFound ==
    (last.op = "get_todo" /\ ~validate_uuid_raises(last.arg) /\ ~Stored(before, CalledId))
    => last.res = "NotFound"

\* C9: update_todo with a valid payload on an id that no stored entry has
\* raises NotFound and changes no stored entry
C9_UpdateNotFound ==
    (/\ last.op = "update_todo"
     /\ ~Stored(before, CalledId)
     /\ ~PayloadHasInjection(last.payload))
    => (last.res = "NotFound" /\ rows = before)

\* C10: delete_todo with an id that is no valid UUID raises ValidationError and
\* deletes nothing
C10_DeleteInvalidId ==
    (last.op = "delete_todo" /\ validate_uuid_raises(last.arg))
    => (last.res = "ValidationError" /\ rows = before)

\* C11: get_todo with an id that is no valid UUID raises ValidationError and
\* invokes no repository method
C11_GetValidatesFirst ==
    (last.op = "get_todo" /\ validate_uuid_raises(last.arg))
    => (last.res = "ValidationError" /\ calls = <<>>)

\* get_todo was called with an invalid id while entries were stored
C11_Witness ==
    /\ last.op = "get_todo"
    /\ validate_uuid_raises(last.arg)
    /\ rows # <<>>
    /\ last.res = "ValidationError"

\* C12: a ValidationError that create_todo or update_todo raises carries the
\* message of the validation that failed
C12_ValidationErrorUnchanged ==
    (last.op \in {"create_todo", "update_todo"} /\ last.res = "ValidationError")
    => message = sanitize_text_message

\* the entry update_todo hands to the commit, for a call that reached it
C13_Updated == EntryUpdate(before[CalledPos], UpdateValues(last.payload))

\* the call's write met a row that has the id already
C13_Duplicate ==
    \/ last.op = "create_todo" /\ Stored(before, last.payload.id)
    \/ /\ last.op = "update_todo" /\ Stored(before, CalledId)
       /\ \E j \in 1..Len(before) : j # CalledPos /\ before[j].id = C13_Updated.id

\* the call's write failed in the repository for another reason than a
\* duplicate or a missing row: a NOT NULL column was given no value
C13_OtherFailure ==
    /\ last.op = "update_todo" /\ Stored(before, CalledId)
    /\ ~C13_Duplicate
    /\ (C13_Updated.title.none \/ C13_Updated.done.none)

\* C13: every call ends in a result or in one of the four error kinds; a write
\* that meets a duplicate id raises AlreadyExists, and a repository failure
\* that is neither a duplicate nor a missing row raises RepositoryError
C13_Taxonomy ==
    /\ last.res \in {"ok", "ValidationError", "NotFound", "AlreadyExists", "RepositoryError"}
    /\ (last.op \in {"create_todo", "update_todo"} /\ calls # <<>>) =>
          /\ C13_Duplicate => last.res = "AlreadyExists"
          /\ C13_OtherFailure => last.res = "RepositoryError"

\* C14: an id whose entry delete_todo has removed never becomes a stored
\* entry again, and create_todo with it raises AlreadyExists
C14_NoUndelete ==
    /\ \A id \in gone : ~Stored(rows, id)
    /\ (/\ last.op = "create_todo"
        /\ last.payload.id \in gone
        /\ ~PayloadHasInjection(last.payload))
       => last.res = "AlreadyExists"

\* C15: every stored entry has a title that is not empty after strip, and an
\* update_todo whose title is empty or whitespace-only raises ValidationError
\* and stores nothing
C15_TitleInvariant ==
    /\ \A i \in 1..Len(rows) : Strip(rows[i].title) # <<>>
    /\ (/\ last.op = "update_todo"
        /\ ~last.payload.title.none
        /\ Strip(last.payload.title.s) = <<>>)
       => (last.res = "ValidationError" /\ rows = before)

\* C16: update_todo and delete_todo leave the id and the created_at of every
\* entry that stays stored as they were
C16_IdCreatedAtImmutable ==
    (last.op \in {"update_todo", "delete_todo"} /\ Len(rows) = Len(before))
    => \A i \in 1..Len(rows) :
          /\ rows[i].id = before[i].id
          /\ rows[i].created_at = before[i].created_at

\* C17: the entry create_todo has stored has no updated_at, and the entry a
\* successful update_todo has written has one
C17_UpdatedAt ==
    /\ (last.op = "create_todo" /\ rows # before) => rows[Len(rows)].updated_at = 0
    /\ (last.op = "update_todo" /\ last.res = "ok") => rows[CalledPos].updated_at # 0

\* C23: the entry a successful create_todo has persisted is not done, not
\* deleted, has no updated_at and a created_at, and carries the payload's id
\* and its trimmed title and description
C23_InitialState ==
    (last.op = "create_todo" /\ last.res = "ok") =>
        /\ Len(rows) = Len(before) + 1
        /\ LET entry == rows[Len(rows)]
           IN /\ ~entry.done /\ ~entry.deleted
              /\ entry.updated_at = 0
              /\ entry.created_at # 0
              /\ entry.id = last.payload.id
              /\ entry.title = Strip(last.payload.title.s)
              /\ entry.description = SomeT(Strip(last.payload.description.s))

\* the page the repository returned to the completed get_all_todos
C24_Page == get_all_to_do_entries(before, last.limit, last.page)

\* C24: get_all_todos succeeds whatever the page holds and returns the
\* conversions of exactly the convertible entries of the page, in the
\* repository's order
C24_SkipsInvalid ==
    last.op = "get_all_todos" =>
        LET valid == SelectSeq(C24_Page, LAMBDA entry : RowSchemaValid(entry))
        IN /\ last.res = "ok"
           /\ last.ret = [i \in 1..Len(valid) |-> RowSchema(valid[i])]
           /\ rows = before

\* a page with an entry that fails conversion before one that converts
C24_Witness ==
    /\ last.op = "get_all_todos"
    /\ Len(C24_Page) = 2
    /\ ~RowSchemaValid(C24_Page[1]) /\ RowSchemaValid(C24_Page[2])
    /\ last.ret = <<RowSchema(C24_Page[2])>>

\* C25: an update_todo with done = true whose texts pass first reads the
\* entry and then updates it once, carrying the title and description it
\* read; when the read finds no entry it raises NotFound without an update;
\* an update without done = true reads nothing first
C25_MarkDoneOrdering ==
    (last.op = "update_todo" /\ last.res # "ValidationError") =>
        IF last.payload.done = SomeB(TRUE)
        THEN IF ~Stored(before, CalledId)
             THEN calls = <<"get_to_do_entry">> /\ last.res = "NotFound"
             ELSE calls = <<"get_to_do_entry", "update_to_do">>
        ELSE calls = <<"update_to_do">>

C27_FailureAtomicity ==
    (last.op \in {"create_todo", "update_todo"} /\ last.res # "ok") => rows = before

\* the texts of the table that InputSanitizer.validate rejects
C28_StoredRejected(table) ==
    { i \in 1..Len(table) :
        InputSanitizerSearch(table[i].title) \/ HasInjection(table[i].description) }

\* C28: create_todo and update_todo raise ValidationError for exactly the
\* payloads with a title or description that InputSanitizer.validate rejects,
\* and no entry they store holds a text the sanitizer rejects
C28_SameTextCheck ==
    /\ last.op \in {"create_todo", "update_todo"} =>
          (last.res = "ValidationError" <=> PayloadHasInjection(last.payload))
    /\ C28_StoredRejected(rows) = {}

----------------------------------------------------------------------------
(* Properties of the completed validator call *)

\* the operator tokens of the detection rule
C18_Tokens == { <<"-","-">>, <<";">>, <<"/","*">>, <<"*","/">> }

\* the keywords of the detection rule
C18_Keywords ==
    { <<"x","p","_","c","m","d","s","h","e","l","l">>, <<"d","r","o","p">>,
      <<"d","e","l","e","t","e">>, <<"i","n","s","e","r","t">>,
      <<"u","p","d","a","t","e">>, <<"e","x","e","c">>,
      <<"e","x","e","c","u","t","e">>, <<"u","n","i","o","n">>,
      <<"s","e","l","e","c","t">>, <<"s","h","u","t","d","o","w","n">>,
      <<"c","r","e","a","t","e">>, <<"a","l","t","e","r">>,
      <<"r","e","n","a","m","e">>, <<"t","r","u","n","c","a","t","e">>,
      <<"d","e","c","l","a","r","e">>, <<"o","r">> }

C18_Lower(s) == [i \in 1..Len(s) |-> ToLower(s[i])]

\* tok occurs in s at position i, whatever the case of the letters
C18_OccursAt(s, tok, i) ==
    /\ i + Len(tok) - 1 <= Len(s)
    /\ SubSeq(C18_Lower(s), i, i + Len(tok) - 1) = tok

\* w occurs in s as a whole word: no letter, digit or underscore next to it
C18_WholeWord(s, w) ==
    \E i \in 1..Len(s) :
        /\ C18_OccursAt(s, w, i)
        /\ (i = 1 \/ ~IsWordChar(s[i - 1]))
        /\ (i + Len(w) - 1 = Len(s) \/ ~IsWordChar(s[i + Len(w)]))

C18_Rejected(s) ==
    \/ \E tok \in C18_Tokens : \E i \in 1..Len(s) : C18_OccursAt(s, tok, i)
    \/ \E w \in C18_Keywords : C18_WholeWord(s, w)

\* r is s without its leading and trailing whitespace, the rest unchanged
C18_Stripped(s, r) ==
    /\ \E i \in 1..(Len(s) + 1), j \in 0..Len(s) :
          /\ r = SubSeq(s, i, j)
          /\ \A k \in 1..Len(s) : (k < i \/ k > j) => IsSpace(s[k])
    /\ r # <<>> => (~IsSpace(r[1]) /\ ~IsSpace(r[Len(r)]))

C19_Idempotent ==
    (check.fn = "InputSanitizer.validate twice" /\ ~check.out.raises)
    => (~check.again.raises /\ check.again.value = check.out.value)

\* a string with whitespace around other characters has been validated twice
C19_Witness ==
    /\ check.fn = "InputSanitizer.validate twice"
    /\ ~check.arg.none
    /\ ~check.out.raises
    /\ check.out.value.s # <<>>
    /\ check.out.value.s # check.arg.s
    /\ ~check.again.raises

\* the sanitized form of the value is None or empty
C20_Blank(value) == value.none \/ \A k \in 1..Len(value.s) : IsSpace(value.s[k])

C20_Injection(value) == ~value.none /\ C18_Rejected(value.s)

C21_Digits(u) ==
    { <<a, b>> : a \in {c \in HexChars \cup UpperChars : IsHex(c) /\ HexVal(c) = u \div 16},
                 b \in {c \in HexChars \cup UpperChars : IsHex(c) /\ HexVal(c) = u % 16} }

\* the string forms of a UUID value: non-hyphenated and hyphenated, each also
\* braced and URN-prefixed
C21_Forms(u) ==
    LET bare == C21_Digits(u) \cup { <<d[1], "-", d[2]>> : d \in C21_Digits(u) }
    IN bare \cup { <<"{">> \o s \o <<"}">> : s \in bare }
            \cup { <<"u","r","n",":","u","u","i","d",":">> \o s : s \in bare }

\* C21: UUIDValidator.validate returns a UUID value as it is, returns u for
\* every string form of u, and raises for every other string
C21_UuidEquivalence ==
    check.fn = "UUIDValidator.validate" =>
        IF check.arg.isUuid
        THEN ~check.out.raises /\ check.out.value = check.arg.u
        ELSE IF \E u \in 0..255 : check.arg.text \in C21_Forms(u)
        THEN /\ ~check.out.raises
             /\ check.arg.text \in C21_Forms(check.out.value)
        ELSE check.out.raises

\* the validators of the builder in the order the spec gives them, each with
\* its outcome on the payload's field
C22_Steps(payload) ==
    << [call |-> "uuid_validator.validate", out |-> UUIDValidator_validate(payload.id.v)],
       [call |-> "field_validator.validate_required",
        out |-> validate_required(payload.title, "title")],
       [call |-> "field_validator.validate_optional",
        out |-> validate_optional(payload.description)] >>

\* the validators that raise on the payload
C22_Failing(payload) == { i \in 1..3 : C22_Steps(payload)[i].out.raises }

\* the number of validators called: all of them, or those up to the first
\* one that raises
C22_Called(payload) ==
    IF C22_Failing(payload) = {} THEN 3
    ELSE CHOOSE i \in C22_Failing(payload) : \A j \in C22_Failing(payload) : i <= j

\* C22: the builder validates id, then title, then description, stops at the
\* first validator that raises and then returns no entry; a build that
\* succeeds returns the three validated values; an absent payload or id
\* raises before any validator is called
C22_BuilderOrder ==
    check.fn = "EntryBuilder.build_from_create_schema" =>
        LET payload == check.arg
            out == check.out
        IN IF payload.none \/ payload.id.none
           THEN out.raises /\ out.calls = <<>> /\ out.value = NoneT
           ELSE LET steps == C22_Steps(payload)
                    n == C22_Called(payload)
                IN /\ out.calls = [i \in 1..n |-> steps[i].call]
                   /\ out.raises <=> C22_Failing(payload) # {}
                   /\ out.raises => out.value = NoneT /\ out.message = steps[n].out.message
                   /\ ~out.raises =>
                         /\ out.value.id = steps[1].out.value
                         /\ out.value.title = steps[2].out.value
                         /\ out.value.description = steps[3].out.value

\* a build stopped by the title validator after the id validator succeeded,
\* with a description that would have raised as well
C22_Witness ==
    /\ check.fn = "EntryBuilder.build_from_create_schema"
    /\ ~check.arg.none /\ ~check.arg.id.none
    /\ C22_Failing(check.arg) = {2, 3}
    /\ check.out.raises
    /\ check.out.calls = <<"uuid_validator.validate", "field_validator.validate_required">>

\* C30: a wrapped operation that raises AlreadyExists or RepositoryError
\* makes the wrapper raise the same kind, and the operation wrapped twice
\* ends as the operation wrapped once
C30_KindPreserved ==
    check.fn = "handle_service_exceptions" =>
        /\ check.arg \in {"ToDoAlreadyExistsError", "ToDoRepositoryError"} =>
              check.out.kind = check.arg
        /\ check.again.kind = check.out.kind

----------------------------------------------------------------------------
(* Properties of the rate limiter *)

\* C29: since the counter was last set to 0 at most max_requests_per_window
\* requests were handed on; a request that finds that many handed on and
\* does not reset the counter is answered 429 and is not handed on; and a
\* request resets the counter only when it arrives more than
\* rate_limit_window seconds after the previous reset, any other request
\* leaving the counter above the number handed on before it
C29_RateLimit ==
    /\ forwarded <= 100
    /\ (/\ response.status_code # 0
        /\ ~response.reset
        /\ response.forwarded_before = 100)
       => (response.status_code = 429 /\ forwarded = 100)
    /\ response.status_code = 429 => forwarded = response.forwarded_before
    /\ response.reset => response.waited > 60
    /\ (response.status_code # 0 /\ ~response.reset) =>
          request_counter > response.forwarded_before

\* after a reset of the counter the 101st request of the window is answered
\* 429, exactly 60 seconds after the reset
C29_Witness ==
    /\ response.status_code = 429
    /\ last_request_time > 0
    /\ response.waited = 60
    /\ forwarded = 100

====
